---- MODULE Spec2Model ----
(***************************************************************************)
(* Model of notebooks/verification.ipynb: the nearest-grid-point lookup    *)
(* lat_lon_2D_index, the error metric rmse, and the notebook cells that    *)
(* build the observed series, the ensemble mean and the error statistics.  *)
(*                                                                         *)
(* Numbers.  The notebook computes in binary floating point.  Here a       *)
(* number is an integer count of 1/FP (four decimal digits), every         *)
(* operation rounds its exact result to the nearest such number (as IEEE   *)
(* arithmetic rounds to the nearest double), and the result of an invalid  *)
(* operation is the not-a-number NaN.  Arrays are records of a shape and   *)
(* the row-major sequence of their elements; elementwise operations follow *)
(* the array library's broadcasting rule.                                  *)
(***************************************************************************)
EXTENDS Integers, Sequences, FiniteSets, TLC

VARIABLES
    pc,               \* which call or notebook cell has run
    lat, lon,         \* latitude / longitude grids handed to the lookup
    pt_lat, pt_lon,   \* the target point (degrees)
    idx,              \* outcome of lat_lon_2D_index
    seqA, seqB,       \* the two series handed to rmse / the error subtraction
    out,              \* outcome of the rmse or error call
    obs,              \* obs['Precipitation'], the observed increments
    obs_pcp_sum_03h,  \* the observed running total every third step
    pcp,              \* pcp['mem1'] .. pcp['memN'], one series per member
    mean_pcp,         \* ensemble mean series
    error_, mean_error,     \* member errors and ensemble-mean error
    ens_rmse, mean_rmse     \* member RMSEs and ensemble-mean RMSE

vars == <<pc, lat, lon, pt_lat, pt_lon, idx, seqA, seqB, out,
          obs, obs_pcp_sum_03h, pcp, mean_pcp, error_, mean_error,
          ens_rmse, mean_rmse>>

---------------------------------------------------------------------------
(* Bounds of the model *)

\* a grid has at most MaxCells cells (and each dimension at most MaxCells)
MaxCells == 4
\* a series handed to rmse / error has at most MaxLen elements
MaxLen == 3
\* the observed increment column has at most MaxObs rows
MaxObs == 6
\* the same, in a run of the whole notebook
MaxRunObs == 3
\* number of ensemble members (range(1, 21) in the notebook)
NMembers == 3

\* latitudes / longitudes (whole degrees) the grids are drawn from: a
\* parallel and its mirror image, a meridian and the opposite meridian
LatVals == {-12, 12}
LonVals == {0, 180}
\* target points: on a grid meridian, and midway between the two
TargetLats == {12}
TargetLons == {0, 90}
\* values (whole units) of the series handed to rmse / error
SeriesVals == 0..3
\* observed increments and forecast accumulations (whole millimetres)
ObsVals == {0, 1}
\* increments of the column handed to the observed-series cell on its own
IncVals == {-1, 0, 1}
PcpVals == {0, 1, 2}

---------------------------------------------------------------------------
(* Finite-precision numbers *)

\* a number is an integer count of 1/FP; NaN is the not-a-number
FP == 10 ^ 4

Num(v) == [nan |-> FALSE, v |-> v]
NaN == [nan |-> TRUE, v |-> 0]

\* the exact quotient n/m rounded to the nearest integer (m > 0)
RoundDiv(n, m) == (n + m \div 2) \div m

\* product of two numbers
Mul(u, w) == RoundDiv(u * w, FP)

Abs(u) == IF u < 0 THEN -u ELSE u

RECURSIVE SqrtSearch(_, _, _)
SqrtSearch(n, lo, hi) ==
    IF lo >= hi THEN lo
    ELSE LET mid == (lo + hi + 1) \div 2
         IN  IF mid * mid <= n THEN SqrtSearch(n, mid, hi)
             ELSE SqrtSearch(n, lo, mid - 1)

\* np.sqrt: NaN for a negative argument, else the nearest number to the root
Sqrt(u) ==
    IF u < 0 THEN NaN
    ELSE LET n == u * FP
             r == SqrtSearch(n, 0, 46340)
         IN  Num(IF n - r * r > r THEN r + 1 ELSE r)

\* np.pi to eight digits, and rad = np.pi/180. to six significant digits
\* (both in units of 10^-7)
pi == 31415927
rad == RoundDiv(pi, 180)

\* rad * deg, as a number
Radians(deg) == RoundDiv(rad * deg, 1000)

\* sum of an alternating power series: term is the last term added, k the
\* index its successor divides by
RECURSIVE TrigSeries(_, _, _, _)
TrigSeries(term, x2, k, acc) ==
    IF term = 0 THEN acc
    ELSE LET nt == -RoundDiv(Mul(term, x2), k * (k + 1))
         IN  TrigSeries(nt, x2, k + 2, acc + nt)

\* np.sin, np.cos of a number of radians
Sin(u) == TrigSeries(u, Mul(u, u), 2, u)
Cos(u) == TrigSeries(FP, Mul(u, u), 1, FP)

RECURSIVE AtanSeries(_, _, _, _)
AtanSeries(pow, u2, k, acc) ==
    IF pow = 0 THEN acc
    ELSE LET np == -Mul(pow, u2)
         IN  AtanSeries(np, u2, k + 2, acc + RoundDiv(np, k + 2))

\* arctan of t in [0, 1]
Atan(t) ==
    IF 10000 * t > 4142 * FP
    THEN LET u == RoundDiv((t - FP) * FP, t + FP)
         IN  RoundDiv(pi, 4000) + AtanSeries(u, Mul(u, u), 1, u)
    ELSE AtanSeries(t, Mul(t, t), 1, t)

\* np.arctan2(n, m) for n, m >= 0; NaN when either argument is NaN
ArcTan2(n, m) ==
    IF n.nan \/ m.nan THEN NaN
    ELSE IF n.v = 0 THEN Num(0)
    ELSE IF n.v <= m.v THEN Num(Atan(RoundDiv(n.v * FP, m.v)))
    ELSE Num(RoundDiv(pi, 2000) - Atan(RoundDiv(m.v * FP, n.v)))

---------------------------------------------------------------------------
(* lat_lon_2D_index, element by element *)

\* Earth's radius, in kilometres: distances are in units of 1000/FP metres
R == 6373

\* dlon = np.abs(x-x1), dlat = np.abs(y-y1) for one element
dlon(xv, lon1) == Abs(xv - lon1)
dlat(yv, lat1) == Abs(yv - lat1)

\* a = sin(rad*dlat/2)**2 + cos(rad*y1) * cos(rad*y) * sin(rad*dlon/2)**2
a(yv, xv, lat1, lon1) ==
    LET s1 == Sin(RoundDiv(Radians(dlat(yv, lat1)), 2))
        s2 == Sin(RoundDiv(Radians(dlon(xv, lon1)), 2))
    IN  Mul(s1, s1) + Mul(Mul(Cos(Radians(lat1)), Cos(Radians(yv))), Mul(s2, s2))

\* c = 2 * np.arctan2(np.sqrt(a), np.sqrt(1-a))
c(yv, xv, lat1, lon1) ==
    LET av == a(yv, xv, lat1, lon1)
        t  == ArcTan2(Sqrt(av), Sqrt(FP - av))
    IN  IF t.nan THEN NaN ELSE Num(2 * t.v)

\* d = R * c
d(yv, xv, lat1, lon1) ==
    LET cv == c(yv, xv, lat1, lon1)
    IN  IF cv.nan THEN NaN ELSE Num(R * cv.v)

---------------------------------------------------------------------------
(* Arrays and broadcasting *)

Size(shape) == shape[1] * shape[2]

\* two shapes broadcast when, in each dimension, they agree or one is 1
Broadcastable(s, t) ==
    \A n \in 1..2 : s[n] = t[n] \/ s[n] = 1 \/ t[n] = 1

BroadcastShape(s, t) ==
    [n \in 1..2 |-> IF s[n] = 1 THEN t[n] ELSE s[n]]

\* the element of array arr that lands on flat position k (from 1) of a
\* result of shape s
Elem(arr, s, k) ==
    LET i  == (k - 1) \div s[2]
        j  == (k - 1) % s[2]
        ii == IF arr.shape[1] = 1 THEN 0 ELSE i
        jj == IF arr.shape[2] = 1 THEN 0 ELSE j
    IN  arr.data[ii * arr.shape[2] + jj + 1]

\* the array d of lat_lon_2D_index: dlat has y's shape, dlon has x's shape,
\* and the sum in a broadcasts the two
d_array(y, x, lat1, lon1) ==
    IF ~Broadcastable(y.shape, x.shape)
    THEN [status |-> "ValueError"]
    ELSE LET s == BroadcastShape(y.shape, x.shape)
         IN  [status |-> "ok", shape |-> s,
              data |-> [k \in 1..Size(s) |->
                          d(Elem(y, s, k), Elem(x, s, k), lat1, lon1)]]

\* the comparison !(v >= w) of the array library's argmin loop
NotGe(v, w) == v.nan \/ w.nan \/ v.v < w.v

\* an argmin whose running minimum also moves to an element equal to it, so
\* that the last of several equal minima is returned
RECURSIVE argmin_scan_last(_, _, _)
argmin_scan_last(data, k, best) ==
    IF k > Len(data) \/ data[best].nan THEN best
    ELSE argmin_scan_last(data, k + 1,
            IF NotGe(data[k], data[best]) \/ data[k] = data[best] THEN k ELSE best)

\* d.argmin() over the flattened array (positions from 1): the running
\* minimum moves to an element that is not >= it, and the scan stops at
\* a NaN
RECURSIVE argmin_scan(_, _, _)
argmin_scan(data, k, best) ==
    IF k > Len(data) \/ data[best].nan THEN best
    ELSE argmin_scan(data, k + 1, IF NotGe(data[k], data[best]) THEN k ELSE best)

argmin(data) == argmin_scan(data, 2, 1)

\* np.unravel_index(k, shape) for a flat position k (from 0)
unravel_index(k, shape) == <<k \div shape[2], k % shape[2]>>

lat_lon_2D_index(y, x, lat1, lon1) ==
    LET dd == d_array(y, x, lat1, lon1)
    IN  IF dd.status # "ok" THEN [status |-> "ValueError"]
        ELSE IF Size(dd.shape) = 0 THEN [status |-> "ValueError"]
        ELSE [status |-> "ok",
              index |-> unravel_index(argmin(dd.data) - 1, dd.shape)]

---------------------------------------------------------------------------
(* The lookup called on a grid *)

Shapes == {s \in (0..MaxCells) \X (0..MaxCells) : s[1] * s[2] <= MaxCells}

Grids(vals) ==
    UNION {{[shape |-> s, data |-> q] : q \in [1..Size(s) -> vals]} : s \in Shapes}

NoGrid == [shape |-> <<0, 0>>, data |-> <<>>]
Pending == [status |-> "pending"]

Idle ==
    /\ seqA = <<>> /\ seqB = <<>> /\ out = Pending
    /\ obs = <<>> /\ obs_pcp_sum_03h = <<>> /\ pcp = <<>> /\ mean_pcp = <<>>
    /\ error_ = <<>> /\ mean_error = <<>> /\ ens_rmse = <<>>
    /\ mean_rmse = Pending

LocatorInit ==
    /\ pc = "lookup"
    /\ lat \in Grids(LatVals)
    /\ lon \in Grids(LonVals)
    /\ pt_lat \in TargetLats
    /\ pt_lon \in TargetLons
    /\ idx = Pending
    /\ Idle

\* idx = lat_lon_2D_index(lat, lon, <target>)
CallLatLon2DIndex ==
    /\ pc = "lookup"
    /\ idx' = lat_lon_2D_index(lat, lon, pt_lat, pt_lon)
    /\ pc' = "looked_up"
    /\ UNCHANGED <<lat, lon, pt_lat, pt_lon, seqA, seqB, out, obs,
                   obs_pcp_sum_03h, pcp, mean_pcp, error_, mean_error,
                   ens_rmse, mean_rmse>>

LocatorNext == CallLatLon2DIndex

LocatorSpec == LocatorInit /\ [][LocatorNext]_vars

---------------------------------------------------------------------------
(* Error metrics *)

RECURSIVE Sum(_)
Sum(seq) == IF seq = <<>> THEN 0 ELSE seq[1] + Sum(Tail(seq))

\* a subtraction that cannot go below zero, as on unsigned counts
Subtract_clipped(p, t) ==
    IF Len(p) = Len(t)
    THEN [status |-> "ok",
          data |-> [k \in 1..Len(p) |-> IF p[k] > t[k] THEN p[k] - t[k] ELSE 0]]
    ELSE [status |-> "ValueError"]

\* p - t for two one-dimensional arrays: elementwise when the lengths agree,
\* a length-1 array is broadcast against the other, anything else raises
Subtract(p, t) ==
    IF Len(p) = Len(t)
    THEN [status |-> "ok", data |-> [k \in 1..Len(p) |-> p[k] - t[k]]]
    ELSE IF Len(p) = 1
    THEN [status |-> "ok", data |-> [k \in 1..Len(t) |-> p[1] - t[k]]]
    ELSE IF Len(t) = 1
    THEN [status |-> "ok", data |-> [k \in 1..Len(p) |-> p[k] - t[1]]]
    ELSE [status |-> "ValueError"]

\* the absolute value in place of the square
Square_abs(e) == [k \in 1..Len(e) |-> Abs(e[k])]

\* e ** 2, elementwise
Square(e) == [k \in 1..Len(e) |-> Mul(e[k], e[k])]

\* .mean(): NaN (with a warning) for an empty array
Mean(e) == IF Len(e) = 0 THEN NaN ELSE Num(RoundDiv(Sum(e), Len(e)))

\* np.sqrt of a number that may be NaN
SqrtF(u) == IF u.nan THEN NaN ELSE Sqrt(u.v)

\* def rmse(predictions, targets):
\*     return np.sqrt(((predictions - targets) ** 2).mean())
rmse(predictions, targets) ==
    LET diff == Subtract(predictions, targets)
    IN  IF diff.status # "ok" THEN [status |-> "ValueError"]
        ELSE [status |-> "ok", val |-> SqrtF(Mean(Square(diff.data)))]

Series(vals, maxlen) ==
    UNION {[1..n -> {v * FP : v \in vals}] : n \in 0..maxlen}

MetricsInit ==
    /\ pc = "metrics"
    /\ seqA \in Series(SeriesVals, MaxLen)
    /\ seqB \in Series(SeriesVals, MaxLen)
    /\ out = Pending
    /\ lat = NoGrid /\ lon = NoGrid /\ pt_lat = 0 /\ pt_lon = 0 /\ idx = Pending
    /\ obs = <<>> /\ obs_pcp_sum_03h = <<>> /\ pcp = <<>> /\ mean_pcp = <<>>
    /\ error_ = <<>> /\ mean_error = <<>> /\ ens_rmse = <<>>
    /\ mean_rmse = Pending

\* rmse(seqA, seqB)
CallRmse ==
    /\ pc = "metrics"
    /\ out' = rmse(seqA, seqB)
    /\ pc' = "rmse"
    /\ UNCHANGED <<lat, lon, pt_lat, pt_lon, idx, seqA, seqB, obs,
                   obs_pcp_sum_03h, pcp, mean_pcp, error_, mean_error,
                   ens_rmse, mean_rmse>>

\* seqA - seqB, the elementwise error of the error cell
CallError ==
    /\ pc = "metrics"
    /\ out' = Subtract(seqA, seqB)
    /\ pc' = "error"
    /\ UNCHANGED <<lat, lon, pt_lat, pt_lon, idx, seqA, seqB, obs,
                   obs_pcp_sum_03h, pcp, mean_pcp, error_, mean_error,
                   ens_rmse, mean_rmse>>

MetricsNext == CallRmse \/ CallError

MetricsSpec == MetricsInit /\ [][MetricsNext]_vars

---------------------------------------------------------------------------
(* The notebook's cells *)

\* the column without the leading 0
obs_pcp_nozero(column) == column

\* pd.concat((pd.Series(0), obs['Precipitation']))
obs_pcp(column) == <<0>> \o column

\* .cumsum(): element k is the sum of the first k elements
RECURSIVE cumsum_from(_, _, _)
cumsum_from(seq, k, total) ==
    IF k > Len(seq) THEN <<>>
    ELSE <<total + seq[k]>> \o cumsum_from(seq, k + 1, total + seq[k])

cumsum(seq) == cumsum_from(seq, 1, 0)

\* seq[::3]: positions 0, 3, 6, ... of seq
every_third(seq) == [k \in 1..((Len(seq) + 2) \div 3) |-> seq[3 * (k - 1) + 1]]

\* obs_pcp_sum_03h = np.array(obs_pcp.cumsum()[::3]) * units.millimeter
observed_03h(column) == every_third(cumsum(obs_pcp(column)))

\* the elementwise largest member in place of the mean
ensemble_max(members) ==
    [k \in 1..Len(members[1]) |->
        CHOOSE v \in {members[m][k] : m \in 1..Len(members)} :
            \A m \in 1..Len(members) : members[m][k] <= v]

\* np.mean([pcp[key].m for key in pcp.keys()], axis=0)
ensemble_mean(members) ==
    [k \in 1..Len(members[1]) |->
        RoundDiv(Sum([m \in 1..Len(members) |-> members[m][k]]), Len(members))]

\* the forecast series have one value per observed 3-hourly total
NTimes(column) == Len(column) \div 3 + 1

ObsInit ==
    /\ pc = "obs"
    /\ obs \in Series(IncVals, MaxObs)
    /\ obs_pcp_sum_03h = <<>>
    /\ lat = NoGrid /\ lon = NoGrid /\ pt_lat = 0 /\ pt_lon = 0 /\ idx = Pending
    /\ seqA = <<>> /\ seqB = <<>> /\ out = Pending
    /\ pcp = <<>> /\ mean_pcp = <<>>
    /\ error_ = <<>> /\ mean_error = <<>> /\ ens_rmse = <<>>
    /\ mean_rmse = Pending

\* the grid point of the station, then the members' series at that point
\* and their mean
CellPlume ==
    /\ pc = "plume"
    /\ idx' = lat_lon_2D_index(lat, lon, pt_lat, pt_lon)
    /\ idx'.status = "ok"
    /\ \E members \in [1..NMembers -> [1..NTimes(obs) -> {v * FP : v \in PcpVals}]] :
          /\ pcp' = members
          /\ mean_pcp' = ensemble_mean(members)
    /\ pc' = "obs"
    /\ UNCHANGED <<lat, lon, pt_lat, pt_lon, seqA, seqB, out, obs,
                   obs_pcp_sum_03h, error_, mean_error, ens_rmse, mean_rmse>>

\* the observed running total every third step
CellObserved ==
    /\ pc = "obs"
    /\ obs_pcp_sum_03h' = observed_03h(obs)
    /\ pc' = "errors"
    /\ UNCHANGED <<lat, lon, pt_lat, pt_lon, idx, seqA, seqB, out, obs, pcp,
                   mean_pcp, error_, mean_error, ens_rmse, mean_rmse>>

\* error['mem'+str(i)] = pcp['mem'+str(i)] - obs_pcp_sum_03h for each member,
\* mean_error = mean_pcp - obs_pcp_sum_03h
CellError ==
    /\ pc = "errors"
    /\ \A m \in 1..Len(pcp) : Subtract(pcp[m], obs_pcp_sum_03h).status = "ok"
    /\ error_' = [m \in 1..Len(pcp) |-> Subtract(pcp[m], obs_pcp_sum_03h).data]
    /\ mean_error' = Subtract(mean_pcp, obs_pcp_sum_03h).data
    /\ pc' = "rmse"
    /\ UNCHANGED <<lat, lon, pt_lat, pt_lon, idx, seqA, seqB, out, obs,
                   obs_pcp_sum_03h, pcp, mean_pcp, ens_rmse, mean_rmse>>

\* mean_rmse = rmse(mean_pcp, obs_pcp_sum_03h), ens_rmse[mem] for each member
CellRmse ==
    /\ pc = "rmse"
    /\ mean_rmse' = rmse(mean_pcp, obs_pcp_sum_03h)
    /\ ens_rmse' = [m \in 1..Len(pcp) |-> rmse(pcp[m], obs_pcp_sum_03h)]
    /\ pc' = "done"
    /\ UNCHANGED <<lat, lon, pt_lat, pt_lon, idx, seqA, seqB, out, obs,
                   obs_pcp_sum_03h, pcp, mean_pcp, error_, mean_error>>

ObsSpec == ObsInit /\ [][CellObserved]_vars

\* a run of the notebook on a grid whose first row holds the station
Init ==
    /\ pc = "plume"
    /\ lat = [shape |-> <<1, 2>>, data |-> <<12, 12>>]
    /\ lon = [shape |-> <<1, 2>>, data |-> <<0, 180>>]
    /\ pt_lat = 12 /\ pt_lon = 0
    /\ idx = Pending
    /\ obs \in Series(ObsVals, MaxRunObs)
    /\ obs_pcp_sum_03h = <<>>
    /\ seqA = <<>> /\ seqB = <<>> /\ out = Pending
    /\ pcp = <<>> /\ mean_pcp = <<>>
    /\ error_ = <<>> /\ mean_error = <<>> /\ ens_rmse = <<>>
    /\ mean_rmse = Pending

Next == CellPlume \/ CellObserved \/ CellError \/ CellRmse

Spec == Init /\ [][Next]_vars

---------------------------------------------------------------------------
(* Properties of lat_lon_2D_index, under LocatorSpec *)

\* IEEE comparisons: every comparison with a NaN is false
FLe(v, w) == ~v.nan /\ ~w.nan /\ v.v <= w.v
FEq(v, w) == ~v.nan /\ ~w.nan /\ v.v = w.v

\* the distance array of the call in the current state
Dist == d_array(lat, lon, pt_lat, pt_lon)

\* flat position (from 1) of an index pair in an array of the given shape
Flat(index, shape) == index[1] * shape[2] + index[2] + 1

InBounds(index, shape) ==
    /\ index[1] \in 0..(shape[1] - 1)
    /\ index[2] \in 0..(shape[2] - 1)

LookedUp == pc = "looked_up"

\* C1: for a non-empty grid whose latitude and longitude arrays have the
\* same shape, the call returns an in-bounds index whose distance is less
\* than or equal to the distance of every other cell.
C1_GlobalMinimum ==
    (LookedUp /\ lat.shape = lon.shape /\ Size(lat.shape) > 0) =>
        /\ idx.status = "ok"
        /\ InBounds(idx.index, lat.shape)
        /\ \A k \in 1..Size(lat.shape) \ {Flat(idx.index, lat.shape)} :
              FLe(Dist.data[Flat(idx.index, lat.shape)], Dist.data[k])

\* C2: no cell before the returned one in row-major order has a distance
\* equal to the returned cell's distance; when every distance is a number,
\* the returned cell is the first of the cells at the minimum distance.
C2_FirstOfTies ==
    (LookedUp /\ idx.status = "ok") =>
        LET r == Flat(idx.index, Dist.shape)
        IN  /\ \A k \in 1..(r - 1) : ~FEq(Dist.data[k], Dist.data[r])
            /\ (\A k \in 1..Size(Dist.shape) : ~Dist.data[k].nan) =>
                  /\ \A k \in 1..Size(Dist.shape) : Dist.data[r].v <= Dist.data[k].v
                  /\ \A k \in 1..(r - 1) : Dist.data[r].v < Dist.data[k].v

\* a 2 x 2 grid whose four cells are all at the minimum distance, from
\* which the first cell of the first row is returned
C2_Witness ==
    /\ LookedUp /\ idx.status = "ok"
    /\ lat.shape = <<2, 2>> /\ lon.shape = <<2, 2>>
    /\ lon.data[1] # lon.data[2]
    /\ \A k \in 1..4 : FEq(Dist.data[k], Dist.data[1])
    /\ idx.index = <<0, 0>>

\* C3: when some cell holds exactly the target coordinate, the returned
\* cell holds the target coordinate and its computed distance is 0.
C3_ExactCell ==
    (/\ LookedUp /\ lat.shape = lon.shape
     /\ \E k \in 1..Size(lat.shape) : lat.data[k] = pt_lat /\ lon.data[k] = pt_lon)
    =>  /\ idx.status = "ok"
        /\ lat.data[Flat(idx.index, lat.shape)] = pt_lat
        /\ lon.data[Flat(idx.index, lat.shape)] = pt_lon
        /\ FEq(Dist.data[Flat(idx.index, lat.shape)], Num(0))

\* C7: when the latitude and longitude arrays have different shapes the
\* call fails and returns no index.
C7_ShapeMismatchFails ==
    (LookedUp /\ lat.shape # lon.shape) => idx.status = "ValueError"

---------------------------------------------------------------------------
(* Properties of rmse and the elementwise error, under MetricsSpec *)

\* sum over k of (seqA[k] - seqB[k])^2 in whole units, for equal lengths
SumSqUnits ==
    Sum([k \in 1..Len(seqA) |->
            ((seqA[k] - seqB[k]) \div FP) * ((seqA[k] - seqB[k]) \div FP)])

Times(seq) == [k \in 1..Len(seq) |-> seq[k] * FP]

\* C4: for equal-length non-empty series rmse returns a number r >= 0 whose
\* square is the mean of the squared differences (to four roundings of
\* 1/FP); rmse([1,2,3],[1,2,3]) = 0 and rmse([2,2,2],[0,0,0]) = 2.
C4_RootMeanSquare ==
    (pc = "rmse" /\ Len(seqA) = Len(seqB) /\ Len(seqA) > 0) =>
        /\ out.status = "ok" /\ ~out.val.nan /\ out.val.v >= 0
        /\ Abs(Len(seqA) * Mul(out.val.v, out.val.v) - FP * SumSqUnits)
              <= 4 * Len(seqA)
        /\ (seqA = Times(<<1, 2, 3>>) /\ seqB = Times(<<1, 2, 3>>)) => out.val.v = 0
        /\ (seqA = Times(<<2, 2, 2>>) /\ seqB = Times(<<0, 0, 0>>)) => out.val.v = 2 * FP

C4_Witness ==
    /\ pc = "rmse"
    /\ seqA = Times(<<2, 2, 2>>) /\ seqB = Times(<<0, 0, 0>>)
    /\ out.status = "ok" /\ out.val = Num(2 * FP)

\* C5: whenever the two series have different lengths, rmse and the
\* elementwise error fail with a length-mismatch error.
C5_LengthMismatchFails ==
    (pc \in {"rmse", "error"} /\ Len(seqA) # Len(seqB)) => out.status = "ValueError"

\* C6: a call on empty input ends in an error: lat_lon_2D_index on an empty
\* grid, and rmse on empty series, return no value.
C6_EmptyInputFails ==
    /\ (LookedUp /\ Size(lat.shape) = 0 /\ Size(lon.shape) = 0) => idx.status = "ValueError"
    /\ (pc = "rmse" /\ seqA = <<>> /\ seqB = <<>>) => out.status = "ValueError"

\* C8: for equal-length non-empty series rmse(A, B) = rmse(B, A), and every
\* element of the error A - B is the negation of that element of B - A.
C8_SwapInvariant ==
    /\ (pc = "rmse" /\ Len(seqA) = Len(seqB) /\ Len(seqA) > 0) =>
          /\ out.status = "ok" /\ rmse(seqB, seqA).status = "ok"
          /\ FEq(out.val, rmse(seqB, seqA).val)
    /\ (pc = "error" /\ Len(seqA) = Len(seqB) /\ Len(seqA) > 0) =>
          /\ out.status = "ok" /\ Subtract(seqB, seqA).status = "ok"
          /\ \A k \in 1..Len(seqA) : out.data[k] = -Subtract(seqB, seqA).data[k]

C8_Witness ==
    /\ pc = "rmse"
    /\ seqA = Times(<<3, 0, 1>>) /\ seqB = Times(<<0, 2, 1>>)
    /\ out.status = "ok" /\ out.val.v > 0
    /\ FEq(out.val, rmse(seqB, seqA).val)

---------------------------------------------------------------------------
(* Properties of the observed series, under ObsSpec *)

\* C9: the observed series has floor(n/3) + 1 elements, element 0 is 0,
\* element k is the sum of the first 3k increments, and the series is
\* non-decreasing when no increment is negative.
C9_ObservedRunningTotal ==
    pc = "errors" =>
        /\ Len(obs_pcp_sum_03h) = Len(obs) \div 3 + 1
        /\ obs_pcp_sum_03h[1] = 0
        /\ \A k \in 0..(Len(obs) \div 3) :
              obs_pcp_sum_03h[k + 1] = Sum(SubSeq(obs, 1, 3 * k))
        /\ (\A n \in 1..Len(obs) : obs[n] >= 0) =>
              \A k \in 1..(Len(obs_pcp_sum_03h) - 1) :
                  obs_pcp_sum_03h[k] <= obs_pcp_sum_03h[k + 1]

C9_Witness ==
    /\ pc = "errors"
    /\ obs = Times(<<1, 0, 1, 0, 0, 1>>)
    /\ obs_pcp_sum_03h = Times(<<0, 2, 3>>)

---------------------------------------------------------------------------
(* Properties of a run of the notebook, under Spec *)

====
